---------------------------- MODULE Spec2Model ----------------------------
(***************************************************************************)
(* Verification model of the df2redis replication test harness:           *)
(*   scripts/test_rdb_phase_sync.py   (RDB-phase key sync test)            *)
(*   scripts/test_stream_replication.py (stream replication test suite)    *)
(*                                                                         *)
(* Strings written by the scripts are modelled as triples <<tag, i, j>>    *)
(* (f"value_{i}_1" is <<"value", i, 1>>); the embedded int(time.time())    *)
(* is left out of the triple because no comparison ever reads it.          *)
(* A stored value is a record [type, val]; hashes, sets and sorted sets    *)
(* keep their elements in the store's internal order, and the client       *)
(* commands (hgetall, smembers, zrange) convert that to what redis-py      *)
(* returns (dict, set, score-ordered list).                                *)
(***************************************************************************)
EXTENDS Integers, Sequences, FiniteSets, TLC

\* ------------------------------------------------------------------------
\* Program constants of test_rdb_phase_sync.py
\* ------------------------------------------------------------------------
TEST_KEYS_COUNT == 20
WAIT_SECONDS == 120
SETTLE_INTERVAL == 10
NUM_DATA_TYPES == 6

\* Exit statuses of test_rdb_phase_sync.py
EXIT_PASS == 0
EXIT_FAILURES == 1
EXIT_SETUP_ERROR == 1
EXIT_GENERATION_ERROR == 1
EXIT_INTERRUPTED == 1
EXIT_UNEXPECTED == 1

\* Bounds of the model (not program constants)
MaxAnomalies == 2      \* keys on which the target diverges or a query raises

Keys == 0 .. (TEST_KEYS_COUNT - 1)

\* Keys on which the model lets the target diverge or a query raise: the
\* keys 2..6 (list, set, sorted set, two strings, the 7th key included) and
\* the last key (a hash)
AnomalyKeys == (2 .. NUM_DATA_TYPES) \cup {TEST_KEYS_COUNT - 1}

\* ------------------------------------------------------------------------
\* Generic helpers
\* ------------------------------------------------------------------------
Reverse(s) == [j \in 1 .. Len(s) |-> s[Len(s) + 1 - j]]

Range(s) == {s[j] : j \in 1 .. Len(s)}

\* ------------------------------------------------------------------------
\* The store: values and the client commands the scripts use
\* ------------------------------------------------------------------------
None == [type |-> "none", val |-> <<>>]

EmptyStore == [k \in Keys |-> None]

StaleStore == [k \in Keys |-> IF k = 0 THEN [type |-> "string", val |-> <<"stale", 0, 0>>] ELSE None]

\* (mutant) an existence check that never reports an absent key
existsAlways(store, k) == TRUE

\* r.exists(key)
exists(store, k) == store[k].type # "none"

\* r.type(key): the store-reported type label
type(store, k) == store[k].type

\* r.get(key)
get(store, k) == store[k].val

\* r.hgetall(key): redis-py returns a dict, i.e. a field -> value mapping
hgetall(store, k) ==
    LET v == store[k].val
        fields == {v[j][1] : j \in 1 .. Len(v)}
    IN [f \in fields |-> LET j == CHOOSE j \in 1 .. Len(v) : v[j][1] = f IN v[j][2]]

\* r.lrange(key, 0, -1): the whole list, in order
lrange(store, k) == store[k].val

\* (mutant) members compared as the list the server sent
smembersAsList(store, k) == store[k].val

\* r.smembers(key): redis-py returns a Python set
smembers(store, k) == Range(store[k].val)

\* order of a sorted set: by score, ties by member
ZLess(a, b) ==
    \/ a[2] < b[2]
    \/ a[2] = b[2] /\ (a[1][2] < b[1][2] \/ (a[1][2] = b[1][2] /\ a[1][3] < b[1][3]))

RECURSIVE SortPairs(_)
SortPairs(S) ==
    IF S = {} THEN <<>>
    ELSE LET m == CHOOSE x \in S : \A y \in S \ {x} : ZLess(x, y)
         IN <<m>> \o SortPairs(S \ {m})

\* r.zrange(key, 0, -1, withscores=True): list of (member, score), by score
zrange(store, k) == SortPairs(Range(store[k].val))

\* r.set(key, value)
set(store, k, value) == [store EXCEPT ![k] = [type |-> "string", val |-> value]]

\* r.hset(key, mapping=...) on a key the script has cleaned: creates the hash
hset(store, k, pairs) ==
    LET old == IF store[k].type = "hash" THEN store[k].val ELSE <<>>
        kept == SelectSeq(old, LAMBDA p : \A j \in 1 .. Len(pairs) : pairs[j][1] # p[1])
    IN [store EXCEPT ![k] = [type |-> "hash", val |-> kept \o pairs]]

\* r.lpush(key, a, b, c): each argument is pushed on the head in turn
lpush(store, k, items) ==
    LET old == IF store[k].type = "list" THEN store[k].val ELSE <<>>
    IN [store EXCEPT ![k] = [type |-> "list", val |-> Reverse(items) \o old]]

\* r.sadd(key, ...)
sadd(store, k, members) ==
    LET old == IF store[k].type = "set" THEN store[k].val ELSE <<>>
        new == SelectSeq(members, LAMBDA m : m \notin Range(old))
    IN [store EXCEPT ![k] = [type |-> "set", val |-> old \o new]]

\* r.zadd(key, {member: score, ...})
zadd(store, k, pairs) ==
    LET old == IF store[k].type = "zset" THEN store[k].val ELSE <<>>
        kept == SelectSeq(old, LAMBDA p : \A j \in 1 .. Len(pairs) : pairs[j][1] # p[1])
    IN [store EXCEPT ![k] = [type |-> "zset", val |-> kept \o pairs]]

\* keys = r.keys(TEST_PREFIX + "*"); if keys: r.delete(*keys)
clean_test_keys(store) == EmptyStore

HasTestKeys(store) == \E k \in Keys : exists(store, k)


\* ------------------------------------------------------------------------
\* write_test_data: what iteration i of the loop writes and records
\* ------------------------------------------------------------------------
\* (mutant) the round-robin has as many slots as there are kinds
KeyTypeFiveSlots(i) ==
    LET data_type == i % (NUM_DATA_TYPES - 1)
    IN CASE data_type = 0 -> "string"
         [] data_type = 1 -> "hash"
         [] data_type = 2 -> "list"
         [] data_type = 3 -> "set"
         [] OTHER -> "zset"

KeyType(i) ==
    LET data_type == i % NUM_DATA_TYPES
    IN CASE data_type = 0 -> "string"
         [] data_type = 1 -> "hash"
         [] data_type = 2 -> "list"
         [] data_type = 3 -> "set"
         [] data_type = 4 -> "zset"
         [] OTHER -> "string"

\* the value recorded in test_keys (None for the non-string kinds)
ExpectedValue(i) ==
    LET data_type == i % NUM_DATA_TYPES
    IN CASE data_type = 0 -> <<"test_value", i, 0>>
         [] data_type \in 1 .. 4 -> <<"None", 0, 0>>
         [] OTHER -> <<"special", i, 0>>

\* the command iteration i sends to the source
WriteOne(store, i) ==
    LET data_type == i % NUM_DATA_TYPES
    IN CASE data_type = 0 -> set(store, i, <<"test_value", i, 0>>)
         [] data_type = 1 ->
              hset(store, i, << <<"field1", <<"value", i, 1>> >>,
                                <<"field2", <<"value", i, 2>> >>,
                                <<"counter", <<"int", i, 0>> >> >>)
         [] data_type = 2 ->
              lpush(store, i, << <<"item", i, 1>>, <<"item", i, 2>>, <<"item", i, 3>> >>)
         [] data_type = 3 ->
              sadd(store, i, << <<"member", i, 1>>, <<"member", i, 2>>, <<"member", i, 3>> >>)
         [] data_type = 4 ->
              zadd(store, i, << << <<"member", i, 1>>, i * 10 >>,
                                << <<"member", i, 2>>, i * 10 + 5 >>,
                                << <<"member", i, 3>>, i * 10 + 10 >> >>)
         [] OTHER -> set(store, i, <<"special", i, 0>>)

TestRecord(i) == [key |-> i, key_type |-> KeyType(i), value |-> ExpectedValue(i)]

\* ------------------------------------------------------------------------
\* verify_test_data: the body of the loop for one record.
\* flt is the query of this key that raises ("none" when none does).
\* Returns the status and the queries sent, in order.
\* ------------------------------------------------------------------------
FaultPoints == {"t_exists", "s_type", "t_value"}

ValueCmd(key_type) ==
    CASE key_type = "string" -> "get"
      [] key_type = "hash" -> "hgetall"
      [] key_type = "list" -> "lrange"
      [] key_type = "set" -> "smembers"
      [] key_type = "zset" -> "zrange"
      [] OTHER -> "none"

ValueCmds == {"get", "hgetall", "lrange", "smembers", "zrange"}

MismatchText(key_type) ==
    CASE key_type = "string" -> "Value mismatch"
      [] key_type = "hash" -> "Hash mismatch"
      [] key_type = "list" -> "List mismatch"
      [] key_type = "set" -> "Set mismatch"
      [] OTHER -> "ZSet mismatch"

\* src_x != dst_x for the declared kind, on what the client returns
ValuesDiffer(src, tgt, k, key_type) ==
    CASE key_type = "string" -> get(src, k) # get(tgt, k)
      [] key_type = "hash" -> hgetall(src, k) # hgetall(tgt, k)
      [] key_type = "list" -> lrange(src, k) # lrange(tgt, k)
      [] key_type = "set" -> smembers(src, k) # smembers(tgt, k)
      [] OTHER -> zrange(src, k) # zrange(tgt, k)

\* (mutant) the type labels are not compared
TypesNeverDiffer(src, tgt, k) == FALSE

\* "if src_type != dst_type"
TypesDiffer(src, tgt, k) == type(src, k) # type(tgt, k)

VerifyRecord(src, tgt, rec, flt) ==
    LET k == rec.key
        q1 == << <<"target", "exists">> >>
        q2 == Append(q1, <<"source", "type">>)
        q3 == Append(q2, <<"target", "type">>)
        q4 == Append(q3, <<"source", ValueCmd(rec.key_type)>>)
        q5 == Append(q4, <<"target", ValueCmd(rec.key_type)>>)
        error == "Verification error"
    IN IF flt = "t_exists" THEN [status |-> error, queries |-> q1]
       ELSE IF ~exists(tgt, k) THEN [status |-> "Missing in target", queries |-> q1]
       ELSE IF flt = "s_type" THEN [status |-> error, queries |-> q2]
       ELSE IF TypesDiffer(src, tgt, k) THEN [status |-> "Type mismatch", queries |-> q3]
       ELSE IF ValueCmd(rec.key_type) = "none" THEN [status |-> "Verified", queries |-> q3]
       \* a value command on a key of another type raises WRONGTYPE
       ELSE IF flt = "s_value" \/ type(src, k) # rec.key_type THEN [status |-> error, queries |-> q4]
       ELSE IF flt = "t_value" \/ type(tgt, k) # rec.key_type THEN [status |-> error, queries |-> q5]
       ELSE IF ValuesDiffer(src, tgt, k, rec.key_type)
            THEN [status |-> MismatchText(rec.key_type), queries |-> q5]
       ELSE [status |-> "Verified", queries |-> q5]

\* ------------------------------------------------------------------------
\* The replication engine under test (df2redis): what it may leave on the
\* target for a key whose source value is v
\* ------------------------------------------------------------------------
Corrupt == <<"corrupt", 0, 0>>

Variants(t) ==
    IF t = "string" THEN {"absent", "wrongtype", "changed"}
    ELSE {"absent", "wrongtype", "changed", "missing_elem", "extra_elem", "reordered"}

Changed(v) ==
    CASE v.type = "string" -> Corrupt
      [] v.type = "hash" -> [v.val EXCEPT ![1] = <<v.val[1][1], Corrupt>>]
      [] v.type = "zset" -> [v.val EXCEPT ![1] = <<v.val[1][1], v.val[1][2] + 1>>]
      [] OTHER -> [v.val EXCEPT ![1] = Corrupt]

Extra(v) ==
    CASE v.type = "hash" -> Append(v.val, <<"extra", Corrupt>>)
      [] v.type = "zset" -> Append(v.val, <<Corrupt, 0>>)
      [] OTHER -> Append(v.val, Corrupt)

Variant(v, how) ==
    CASE how = "absent" -> None
      [] how = "wrongtype" ->
           IF v.type = "string" THEN [type |-> "list", val |-> <<v.val>>]
           ELSE [type |-> "string", val |-> Corrupt]
      [] how = "changed" -> [v EXCEPT !.val = Changed(v)]
      [] how = "missing_elem" -> [v EXCEPT !.val = Tail(v.val)]
      [] how = "extra_elem" -> [v EXCEPT !.val = Extra(v)]
      [] OTHER -> [v EXCEPT !.val = Reverse(v.val)]

\* ------------------------------------------------------------------------
\* State of a run of test_rdb_phase_sync.py
\* ------------------------------------------------------------------------
VARIABLES
    pc,             \* position of main()
    source,         \* contents of the source store (test keys)
    target,         \* contents of the target store (test keys)
    fault,          \* per key: the verification query that raises for it
    replicated,     \* the engine has copied the test keys to the target
    diverged,       \* keys the engine copied wrongly
    acked,          \* the operator pressed Enter in wait_for_user_start
    setup_failed,   \* the configuration or a connection could not be set up
    wtd_keys,       \* write_test_data: its local list test_keys
    success,        \* main: success flag returned by write_test_data
    test_keys,      \* main: list returned by write_test_data
    settle_i,       \* main: intervals of the settle wait that have elapsed
    remaining,      \* main: last remaining-seconds indication printed
    vi,             \* verify_test_data: records handled so far
    success_count,
    fail_count,
    fail_details,   \* list of [key, text]
    printed,        \* one line per record printed by verify_test_data
    lastQueries,    \* store queries of the last record handled
    verifyStarted,  \* verify_test_data has been called
    verdict,        \* "Pass" / "Fail" once the summary is printed
    data_loss_rate, \* printed loss rate in tenths of a percent (-1: not computed)
    divisor,        \* the total the loss-rate division divided by (-1: no division)
    prev,           \* what the earlier calls of verify_test_data returned
    accessPhases,   \* positions of main() at which a store command was sent
    mutated,        \* a data-changing command has been sent to a store
    exit_code,      \* process exit status (-1 while running)
    outcome         \* how the run ended

rdbVars == <<pc, source, target, fault, replicated, diverged, acked, setup_failed,
             wtd_keys, success, test_keys, settle_i, remaining, vi, success_count, fail_count,
             fail_details, printed, lastQueries, verifyStarted, verdict,
             data_loss_rate, divisor, prev, accessPhases, mutated, exit_code, outcome>>

\* ------------------------------------------------------------------------
\* State of the stream suite
\* ------------------------------------------------------------------------
VARIABLES
    s_pc,        \* position of main(): "cleanup", "tests", "done"
    s_source,    \* streams of the source store
    s_target,    \* streams of the target store
    s_test,      \* run_all_tests: tests run so far
    results,     \* run_all_tests: one result per test run
    cmp,         \* the last call of compare_streams: what it saw and returned
    s_anoms,     \* anomalies (engine divergences, lost keys, faults) so far
    s_runs,      \* runs of the suite started
    s_exit,      \* exit status of the last run (-1 while running)
    s_outcome    \* how the last run ended

streamVars == <<s_pc, s_source, s_target, s_test, results, cmp, s_anoms, s_runs,
                s_exit, s_outcome>>

\* (mutant) one interval short
SettleRoundsShort == (WAIT_SECONDS \div SETTLE_INTERVAL) - 1

\* "range(wait_seconds // 10)"
SettleRounds == WAIT_SECONDS \div SETTLE_INTERVAL

Anomalies == Cardinality(diverged) + Cardinality({k \in Keys : fault[k] # "none"})

\* st: the test keys a previous run left on both stores
RdbInit(st) ==
    /\ pc = "load_config"
    /\ source = st
    /\ target = st
    /\ fault = [k \in Keys |-> "none"]
    /\ replicated = FALSE
    /\ diverged = {}
    /\ acked = FALSE
    /\ setup_failed = FALSE
    /\ wtd_keys = <<>>
    /\ success = FALSE
    /\ test_keys = <<>>
    /\ settle_i = 0
    /\ remaining = WAIT_SECONDS
    /\ vi = 0
    /\ success_count = 0
    /\ fail_count = 0
    /\ fail_details = <<>>
    /\ printed = <<>>
    /\ lastQueries = <<>>
    /\ verifyStarted = FALSE
    /\ verdict = "none"
    /\ data_loss_rate = -1
    /\ divisor = -1
    /\ prev = <<>>
    /\ accessPhases = {}
    /\ mutated = FALSE
    /\ exit_code = -1
    /\ outcome = "running"

\* sys.exit(code): the process ends and its variables are gone; the stores,
\* what was printed (verdict) and the exit status remain.
Exit(code, how) ==
    /\ pc' = "done"
    /\ exit_code' = code
    /\ outcome' = how
    /\ wtd_keys' = <<>>
    /\ success' = FALSE
    /\ test_keys' = <<>>
    /\ settle_i' = 0
    /\ remaining' = WAIT_SECONDS
    /\ vi' = 0
    /\ success_count' = 0
    /\ fail_count' = 0
    /\ fail_details' = <<>>
    /\ printed' = <<>>
    /\ lastQueries' = <<>>
    /\ data_loss_rate' = -1

Locals == <<wtd_keys, success, test_keys, settle_i, remaining, vi, success_count,
            fail_count, fail_details, printed, lastQueries, data_loss_rate>>

Engine == <<fault, replicated, diverged>>

\* main, step 1: load_config and the extraction of the addresses.
\* not_found: no file at the path and none detected from a running process;
\* bad_yaml: the file cannot be read or parsed; bad_shape: the parsed
\* document lacks source/target addresses (KeyError or ValueError in main)
LoadConfig ==
    /\ UNCHANGED streamVars
    /\ pc = "load_config"
    /\ \E res \in {"ok", "not_found", "bad_yaml", "bad_shape"} :
         /\ setup_failed' = (res # "ok")
         /\ CASE res = "ok" ->
                  /\ pc' = "connect_source"
                  /\ UNCHANGED <<Locals, exit_code, outcome>>
              [] res = "bad_shape" -> Exit(EXIT_UNEXPECTED, "unexpected_error")
              [] OTHER -> Exit(EXIT_SETUP_ERROR, "setup_error")
    /\ UNCHANGED <<source, target, Engine, acked, verifyStarted, verdict, divisor, prev,
                   accessPhases, mutated>>

\* (mutant) only the two named exceptions end the run; on any other
\* failure connect_redis returns
ConnectExitsOnNamedErrors(res) == res \in {"auth", "refused"}

\* connect_redis: the three except branches (AuthenticationError,
\* ConnectionError, Exception) all call sys.exit(1)
ConnectExits(res) == res \in {"auth", "refused", "other"}

\* main, step 2: connect_redis for the source, then for the target;
\* res is what Redis(...) and r.ping() do
ConnectRedis ==
    /\ UNCHANGED streamVars
    /\ pc \in {"connect_source", "connect_target"}
    /\ accessPhases' = accessPhases \cup {pc}
    /\ \E res \in {"ok", "auth", "refused", "other"} :
         /\ setup_failed' = (res # "ok")
         /\ IF ConnectExits(res)
            THEN Exit(EXIT_SETUP_ERROR, "setup_error")
            ELSE /\ pc' = IF pc = "connect_source" THEN "connect_target" ELSE "clean"
                 /\ UNCHANGED <<Locals, exit_code, outcome>>
    /\ UNCHANGED <<source, target, Engine, acked, verifyStarted, verdict, divisor, prev,
                   mutated>>

\* clean_test_keys(r): an exception is printed and swallowed (raised = TRUE)
CleanResult(store, raised) == IF raised THEN store ELSE clean_test_keys(store)

CleanMutates(store, raised) == ~raised /\ HasTestKeys(store)

\* main, step 3: clean both stores
CleanStores ==
    /\ UNCHANGED streamVars
    /\ pc = "clean"
    /\ pc' = "wait_user"
    /\ accessPhases' = accessPhases \cup {pc}
    /\ \E sr \in BOOLEAN, tr \in BOOLEAN :
         /\ source' = CleanResult(source, sr)
         /\ target' = CleanResult(target, tr)
         /\ mutated' = (mutated \/ CleanMutates(source, sr) \/ CleanMutates(target, tr))
    /\ UNCHANGED <<Locals, Engine, acked, setup_failed, verifyStarted, verdict, divisor,
                   prev, exit_code, outcome>>

\* main, step 4: wait_for_user_start; input() returns or raises EOFError
WaitForUserStart ==
    /\ UNCHANGED streamVars
    /\ pc = "wait_user"
    /\ \E res \in {"enter", "eof"} :
         IF res = "enter"
         THEN /\ acked' = TRUE
              /\ pc' = "write"
              /\ UNCHANGED <<Locals, exit_code, outcome>>
         ELSE /\ Exit(EXIT_UNEXPECTED, "unexpected_error")
              /\ UNCHANGED acked
    /\ UNCHANGED <<source, target, Engine, setup_failed, verifyStarted, verdict,
                   divisor, prev, accessPhases, mutated>>

\* (mutant) the keys written before the failure are returned
FailedWritePartial(local_keys) == [success |-> FALSE, test_keys |-> local_keys]

\* write_test_data, except branch: "return False, []"
FailedWriteReturn(local_keys) == [success |-> FALSE, test_keys |-> <<>>]

\* write_test_data, one iteration of the loop; after the last one it
\* returns (True, test_keys) to main
WriteKey ==
    /\ UNCHANGED streamVars
    /\ pc = "write"
    /\ LET i == Len(wtd_keys)
           keys == Append(wtd_keys, TestRecord(i))
       IN /\ i < TEST_KEYS_COUNT
          /\ source' = WriteOne(source, i)
          /\ wtd_keys' = keys
          /\ IF i + 1 = TEST_KEYS_COUNT
             THEN /\ success' = TRUE
                  /\ test_keys' = keys
                  /\ pc' = "check_write"
             ELSE UNCHANGED <<success, test_keys, pc>>
    /\ accessPhases' = accessPhases \cup {pc}
    /\ mutated' = TRUE
    /\ UNCHANGED <<target, Engine, acked, setup_failed, settle_i, remaining, vi,
                   success_count, fail_count, fail_details, printed, lastQueries,
                   verifyStarted, verdict, divisor, prev, data_loss_rate, exit_code,
                   outcome>>

\* write_test_data: the write of iteration i raises; the function returns
WriteFail ==
    /\ UNCHANGED streamVars
    /\ pc = "write"
    /\ Len(wtd_keys) < TEST_KEYS_COUNT
    /\ LET ret == FailedWriteReturn(wtd_keys)
       IN /\ success' = ret.success
          /\ test_keys' = ret.test_keys
    /\ pc' = "check_write"
    /\ accessPhases' = accessPhases \cup {pc}
    /\ UNCHANGED <<source, target, Engine, acked, setup_failed, wtd_keys, settle_i,
                   remaining, vi, success_count, fail_count, fail_details, printed,
                   lastQueries, verifyStarted, verdict, divisor, prev, data_loss_rate,
                   mutated, exit_code, outcome>>

\* main, step 5: "if not success: sys.exit(1)"
CheckWrite ==
    /\ UNCHANGED streamVars
    /\ pc = "check_write"
    /\ IF success
       THEN /\ pc' = "settle"
            /\ UNCHANGED <<Locals, exit_code, outcome>>
       ELSE Exit(EXIT_GENERATION_ERROR, "generation_error")
    /\ UNCHANGED <<source, target, Engine, acked, setup_failed, verifyStarted, verdict,
                   divisor, prev, accessPhases, mutated>>

\* (mutant) the counters are kept from one call to the next
VerifyStartKeeps(acc) == acc

\* verify_test_data, lines 228-230: the counters of a call start at zero
VerifyStart(acc) == [success_count |-> 0, fail_count |-> 0, fail_details |-> <<>>]

\* main, step 6: one interval of the settle wait (sleep, then the
\* remaining-time line); after the last one main calls verify_test_data
SettleTick ==
    /\ UNCHANGED streamVars
    /\ pc = "settle"
    /\ settle_i < SettleRounds
    /\ settle_i' = settle_i + 1
    /\ remaining' = WAIT_SECONDS - (settle_i + 1) * SETTLE_INTERVAL
    /\ IF settle_i + 1 = SettleRounds
       THEN /\ pc' = "verify"
            /\ LET acc == VerifyStart([success_count |-> success_count,
                                       fail_count |-> fail_count,
                                       fail_details |-> fail_details])
               IN /\ success_count' = acc.success_count
                  /\ fail_count' = acc.fail_count
                  /\ fail_details' = acc.fail_details
       ELSE UNCHANGED <<pc, success_count, fail_count, fail_details>>
    /\ UNCHANGED <<source, target, Engine, acked, setup_failed, wtd_keys, success,
                   test_keys, vi, printed, lastQueries, verifyStarted, verdict, divisor,
                   prev, data_loss_rate, accessPhases, mutated, exit_code, outcome>>

\* The engine runs asynchronously from the first write on, and the script
\* reads the target for the first time when verification starts: the
\* engine's net effect is applied at that point.
EngineWindow == pc = "verify" /\ vi = 0 /\ ~verifyStarted

\* the keys of the records main holds
WrittenKeys == {test_keys[j].key : j \in 1 .. Len(test_keys)}

Replicate ==
    /\ UNCHANGED streamVars
    /\ EngineWindow
    /\ ~replicated
    /\ replicated' = TRUE
    /\ target' = source
    /\ UNCHANGED <<pc, source, fault, diverged, acked, setup_failed, Locals,
                   verifyStarted, verdict, divisor, prev, accessPhases, mutated,
                   exit_code, outcome>>

Diverge ==
    /\ UNCHANGED streamVars
    /\ EngineWindow
    /\ replicated
    /\ Anomalies < MaxAnomalies
    /\ \E k \in (AnomalyKeys \cap WrittenKeys) \ diverged : \E how \in Variants(source[k].type) :
         /\ target' = [target EXCEPT ![k] = Variant(source[k], how)]
         /\ diverged' = diverged \cup {k}
    /\ UNCHANGED <<pc, source, fault, replicated, acked, setup_failed, Locals,
                   verifyStarted, verdict, divisor, prev, accessPhases, mutated,
                   exit_code, outcome>>

\* a store starts to raise on one query of one key (timeout, protocol error)
StoreFault ==
    /\ UNCHANGED streamVars
    /\ EngineWindow
    /\ replicated
    /\ Anomalies < MaxAnomalies
    /\ \E k \in AnomalyKeys \cap WrittenKeys : \E f \in FaultPoints :
         /\ fault[k] = "none"
         /\ fault' = [fault EXCEPT ![k] = f]
    /\ UNCHANGED <<pc, source, target, replicated, diverged, acked, setup_failed,
                   Locals, verifyStarted, verdict, divisor, prev, accessPhases, mutated,
                   exit_code, outcome>>

\* (mutant) the except branch does not count the record
TallySkipsErrors(acc, key, status) ==
    IF status = "Verified" THEN [acc EXCEPT !.success_count = @ + 1]
    ELSE IF status = "Verification error" THEN acc
    ELSE [acc EXCEPT !.fail_count = @ + 1,
                     !.fail_details = Append(@, [key |-> key, text |-> status])]

\* verify_test_data: how one record's status is added to the counters
Tally(acc, key, status) ==
    IF status = "Verified"
    THEN [acc EXCEPT !.success_count = @ + 1]
    ELSE [acc EXCEPT !.fail_count = @ + 1,
                     !.fail_details = Append(@, [key |-> key, text |-> status])]

\* verify_test_data: one iteration of the loop over test_keys
VerifyKey ==
    /\ UNCHANGED streamVars
    /\ pc = "verify"
    /\ vi < Len(test_keys)
    /\ LET rec == test_keys[vi + 1]
           r == VerifyRecord(source, target, rec, fault[rec.key])
           acc == Tally([success_count |-> success_count, fail_count |-> fail_count,
                         fail_details |-> fail_details], rec.key, r.status)
       IN /\ success_count' = acc.success_count
          /\ fail_count' = acc.fail_count
          /\ fail_details' = acc.fail_details
          /\ printed' = Append(printed, [key |-> rec.key, text |-> r.status])
          /\ lastQueries' = r.queries
    /\ vi' = vi + 1
    /\ verifyStarted' = TRUE
    /\ accessPhases' = accessPhases \cup {pc}
    /\ UNCHANGED <<pc, source, target, Engine, acked, setup_failed, wtd_keys, success,
                   test_keys, settle_i, remaining, verdict, divisor, prev,
                   data_loss_rate, mutated, exit_code, outcome>>

\* main, step 8: (fail_count / len(test_keys)) * 100 printed with one
\* decimal ("{:.1f}" rounds to the nearest tenth), in tenths of a percent
LossRate(fails, total) == (2 * fails * 1000 + total) \div (2 * total)

\* (mutant) the rate is computed before the test on fail_count
RateComputedAlways(fails) == TRUE

\* main, step 8: "if fail_count > 0:" guards the loss-rate division
RateComputed(fails) == fails > 0

\* main, step 8, else branch: "(0% data loss)"; otherwise the computed rate
ReportedLossRate == IF verdict = "Pass" THEN 0 ELSE data_loss_rate

\* main, steps 7-8: verify_test_data returns and the summary is printed.
\* A division by a zero total raises ZeroDivisionError, which the handler
\* "except Exception" of __main__ turns into exit status 1.
Report ==
    /\ UNCHANGED streamVars
    /\ pc = "verify"
    /\ vi = Len(test_keys)
    /\ verifyStarted' = TRUE
    /\ LET total == Len(test_keys)
           computed == RateComputed(fail_count)
       IN /\ divisor' = IF computed THEN total ELSE divisor
          /\ IF computed /\ total = 0
             THEN /\ Exit(EXIT_UNEXPECTED, "unexpected_error")
                  /\ UNCHANGED verdict
             ELSE /\ data_loss_rate' = IF computed THEN LossRate(fail_count, total) ELSE -1
                  /\ verdict' = IF fail_count > 0 THEN "Fail" ELSE "Pass"
                  /\ pc' = "cleanup_prompt"
                  /\ UNCHANGED <<wtd_keys, success, test_keys, settle_i, remaining, vi,
                                 success_count, fail_count, fail_details, printed,
                                 lastQueries, exit_code, outcome>>
    /\ UNCHANGED <<source, target, Engine, acked, setup_failed, prev, accessPhases,
                   mutated>>

\* main, step 9 and the final sys.exit: the prompt returns an answer or
\* raises EOFError
CleanupPrompt ==
    /\ UNCHANGED streamVars
    /\ pc = "cleanup_prompt"
    /\ \E answer \in {"y", "n", "eof"} :
         CASE answer = "y" ->
                /\ \E sr \in BOOLEAN, tr \in BOOLEAN :
                     /\ source' = CleanResult(source, sr)
                     /\ target' = CleanResult(target, tr)
                /\ accessPhases' = accessPhases \cup {pc}
                /\ Exit(IF fail_count = 0 THEN EXIT_PASS ELSE EXIT_FAILURES,
                        IF fail_count = 0 THEN "pass" ELSE "failures")
           [] answer = "n" ->
                /\ UNCHANGED <<source, target, accessPhases>>
                /\ Exit(IF fail_count = 0 THEN EXIT_PASS ELSE EXIT_FAILURES,
                        IF fail_count = 0 THEN "pass" ELSE "failures")
           [] OTHER ->
                /\ UNCHANGED <<source, target, accessPhases>>
                /\ Exit(EXIT_UNEXPECTED, "unexpected_error")
    /\ UNCHANGED <<Engine, acked, setup_failed, verifyStarted, verdict, divisor, prev,
                   mutated>>

\* KeyboardInterrupt, at any point of main: "except KeyboardInterrupt"
Interrupt ==
    /\ UNCHANGED streamVars
    /\ pc # "done"
    /\ Exit(EXIT_INTERRUPTED, "interrupted")
    /\ UNCHANGED <<source, target, Engine, acked, setup_failed, verifyStarted, verdict,
                   divisor, prev, accessPhases, mutated>>

\* ------------------------------------------------------------------------
\* verify_test_data and the summary as functions of the record list: the
\* record count is the module-level setting TEST_KEYS_COUNT, and the
\* specification below starts main at its call of verify_test_data for
\* every setting 0 .. MaxRecords, and may call verify_test_data again on
\* the same list and stores.
\* ------------------------------------------------------------------------
MaxRecords == 4     \* records in the list given to verify_test_data
MaxCalls == 2       \* calls of verify_test_data on the same list and stores

\* "for i in range(TEST_KEYS_COUNT)" with the setting n: the list returned
Records(n) == [j \in 1 .. n |-> TestRecord(j - 1)]

\* ... and what the loop has written to a cleaned source
RECURSIVE WrittenStore(_)
WrittenStore(n) == IF n = 0 THEN EmptyStore ELSE WriteOne(WrittenStore(n - 1), n - 1)

\* "return success_count, fail_count, fail_details"
VerifyReturn ==
    [success_count |-> success_count, fail_count |-> fail_count,
     fail_details |-> fail_details]

\* verify_test_data is called again with the same arguments
VerifyAgain ==
    /\ UNCHANGED streamVars
    /\ pc = "verify"
    /\ vi = Len(test_keys)
    /\ Len(prev) + 1 < MaxCalls
    /\ prev' = Append(prev, VerifyReturn)
    /\ LET acc == VerifyStart(VerifyReturn)
       IN /\ success_count' = acc.success_count
          /\ fail_count' = acc.fail_count
          /\ fail_details' = acc.fail_details
    /\ vi' = 0
    /\ printed' = <<>>
    /\ lastQueries' = <<>>
    /\ verifyStarted' = TRUE
    /\ UNCHANGED <<pc, source, target, Engine, acked, setup_failed, wtd_keys, success,
                   test_keys, settle_i, remaining, verdict, divisor, data_loss_rate,
                   accessPhases, mutated, exit_code, outcome>>

\* main at its call of verify_test_data, n records written and the settle
\* wait over
VerifyInit(n) ==
    /\ pc = "verify"
    /\ source = WrittenStore(n)
    /\ target = EmptyStore
    /\ fault = [k \in Keys |-> "none"]
    /\ replicated = FALSE
    /\ diverged = {}
    /\ acked = TRUE
    /\ setup_failed = FALSE
    /\ wtd_keys = Records(n)
    /\ success = TRUE
    /\ test_keys = Records(n)
    /\ settle_i = SettleRounds
    /\ remaining = 0
    /\ vi = 0
    /\ success_count = 0
    /\ fail_count = 0
    /\ fail_details = <<>>
    /\ printed = <<>>
    /\ lastQueries = <<>>
    /\ verifyStarted = FALSE
    /\ verdict = "none"
    /\ data_loss_rate = -1
    /\ divisor = -1
    /\ prev = <<>>
    /\ accessPhases = {"connect_source", "connect_target", "clean"}
                        \cup (IF n > 0 THEN {"write"} ELSE {})
    /\ mutated = (n > 0)
    /\ exit_code = -1
    /\ outcome = "running"

VerifyNext ==
    \/ Replicate
    \/ Diverge
    \/ StoreFault
    \/ VerifyKey
    \/ VerifyAgain
    \/ Report
    \/ CleanupPrompt

RdbNext ==
    \/ LoadConfig
    \/ ConnectRedis
    \/ CleanStores
    \/ WaitForUserStart
    \/ WriteKey
    \/ WriteFail
    \/ CheckWrite
    \/ SettleTick
    \/ Replicate
    \/ Diverge
    \/ StoreFault
    \/ VerifyKey
    \/ Report
    \/ CleanupPrompt
    \/ Interrupt

\* ========================================================================
\* test_stream_replication.py
\* ========================================================================
S_EXIT_PASS == 0
S_EXIT_FAILURES == 1
S_EXIT_INTERRUPTED == 2
S_EXIT_FATAL == 3

NUM_TESTS == 6

\* bounds: runs of the suite against the same pair of stores; anomalies
\* (engine deviations, lost keys, store faults) over those runs
MaxRuns == 2
MaxStreamAnomalies == 1

\* the key list of cleanup()
CleanupKeys ==
    {"test:stream:basic", "test:stream:autoid", "test:stream:nomkstream",
     "test:stream:trim_maxlen", "test:stream:trim_minid", "test:stream:rdb_phase",
     "test:stream:stable_phase"}

\* the keys the six tests of run_all_tests write (test_trim_maxlen and
\* test_trim_to_zero share one)
SuiteKeys ==
    {"test:stream:basic", "test:stream:autoid", "test:stream:trim_maxlen",
     "test:stream:trim_minid", "test:stream:inline_trim"}

StreamKeys == CleanupKeys \cup SuiteKeys

\* A stream: entries are <<id, fields>>, an id is <<ms, seq>>; last_id is the
\* highest id ever added (it survives trimming)
NoStream == [exists |-> FALSE, entries |-> <<>>, last_id |-> <<0, 0>>]

NoEntry == <<>>

IdLess(a, b) == a[1] < b[1] \/ (a[1] = b[1] /\ a[2] < b[2])

\* XADD key <id> ...: raises when the id is not above the stream's last id
XaddId(st, id, fields) ==
    IF IdLess(st.last_id, id)
    THEN [raised |-> FALSE,
          st |-> [exists |-> TRUE, entries |-> Append(st.entries, <<id, fields>>),
                  last_id |-> id]]
    ELSE [raised |-> TRUE, st |-> st]

\* XADD key * ...: the server generates an id above the last one
XaddAuto(st, fields) ==
    LET id == <<st.last_id[1] + 1, 0>>
    IN [exists |-> TRUE, entries |-> Append(st.entries, <<id, fields>>), last_id |-> id]

\* XTRIM key MAXLEN n: keeps the n newest entries
XtrimMaxlen(st, n) ==
    IF Len(st.entries) > n
    THEN [st EXCEPT !.entries = SubSeq(st.entries, Len(st.entries) - n + 1, Len(st.entries))]
    ELSE st

\* XTRIM key MAXLEN ~ n: the server may trim less than asked (whole nodes
\* only); lazy = it removes nothing
XtrimApprox(st, n, lazy) == IF lazy THEN st ELSE XtrimMaxlen(st, n)

\* XTRIM key MINID id: removes the entries with an id below id
XtrimMinid(st, id) ==
    [st EXCEPT !.entries = SelectSeq(st.entries, LAMBDA e : ~IdLess(e[1], id))]

\* r.xinfo_stream(key): raises "no such key" for an absent stream
xinfo_stream(st) ==
    IF ~st.exists
    THEN [err |-> "no such key", length |-> 0, first |-> NoEntry, last |-> NoEntry]
    ELSE [err |-> "",
          length |-> Len(st.entries),
          first |-> IF Len(st.entries) = 0 THEN NoEntry ELSE st.entries[1],
          last |-> IF Len(st.entries) = 0 THEN NoEntry ELSE st.entries[Len(st.entries)]]

\* r.xrange(key): the whole stream in id order, [] for an absent key
xrange(st) == st.entries

\* compare_streams, the loop over zip(source_entries, target_entries):
\* TRUE iff some pair differs in id or in data
EntriesDiffer(source_entries, target_entries) ==
    \E i \in 1 .. Len(source_entries) :
        \/ source_entries[i][1] # target_entries[i][1]
        \/ source_entries[i][2] # target_entries[i][2]

\* (mutant) the last-entry summaries are not compared
LastEntryNeverDiffers(source_info, target_info) == FALSE

\* compare_streams: "if source_info['first-entry'] != target_info['first-entry']"
FirstEntryDiffers(source_info, target_info) == source_info.first # target_info.first

\* compare_streams: "if source_info['last-entry'] != target_info['last-entry']"
LastEntryDiffers(source_info, target_info) == source_info.last # target_info.last

\* compare_streams, "except redis.ResponseError" with "no such key": the
\* target is asked again; anything it raises (hraises: another error than
\* "no such key") is taken as an absent stream
AbsentHandler(tgt, hraises) ==
    IF xinfo_stream(tgt).err = "" /\ ~hraises
    THEN [result |-> FALSE, path |-> "absent"]
    ELSE [result |-> TRUE, path |-> "absent"]

\* compare_streams(key): src is the source stream, tgtA the target as its
\* first query sees it, tgtB the target as the later queries see it
compare_streams(src, tgtA, tgtB, hraises) ==
    LET source_info == xinfo_stream(src)
        target_info == xinfo_stream(tgtA)
        source_entries == xrange(src)
        target_entries == xrange(tgtB)
    IN IF source_info.err # "" THEN AbsentHandler(tgtA, hraises)
       ELSE IF target_info.err # "" THEN AbsentHandler(tgtB, hraises)
       ELSE IF source_info.length # target_info.length
            THEN [result |-> FALSE, path |-> "compared"]
       ELSE IF Len(source_entries) # Len(target_entries)
            THEN [result |-> FALSE, path |-> "compared"]
       ELSE IF EntriesDiffer(source_entries, target_entries)
            THEN [result |-> FALSE, path |-> "compared"]
       ELSE IF FirstEntryDiffers(source_info, target_info)
            THEN [result |-> FALSE, path |-> "compared"]
       ELSE IF LastEntryDiffers(source_info, target_info)
            THEN [result |-> FALSE, path |-> "compared"]
       ELSE [result |-> TRUE, path |-> "compared"]

\* ------------------------------------------------------------------------
\* What the engine may leave on the target for a source stream src
\* ------------------------------------------------------------------------
StreamVariants ==
    {"same", "absent", "empty", "lost_last", "lost_first", "extra_entry",
     "first_changed", "middle_changed", "last_changed", "id_changed"}

ChangedFields(fields) ==
    [f \in (DOMAIN fields) \cup {"corrupt"} |-> IF f = "corrupt" THEN "x" ELSE fields[f]]

StreamVariant(src, how) ==
    LET n == Len(src.entries)
    IN CASE how = "absent" -> NoStream
         [] how = "empty" -> [exists |-> TRUE, entries |-> <<>>, last_id |-> src.last_id]
         [] how = "extra_entry" ->
              XaddAuto(src, [extra |-> "x"])
         [] how = "lost_last" /\ n > 0 -> [src EXCEPT !.entries = SubSeq(@, 1, n - 1)]
         [] how = "lost_first" /\ n > 0 -> [src EXCEPT !.entries = Tail(@)]
         [] how = "first_changed" /\ n > 0 ->
              [src EXCEPT !.entries[1] = <<@[1], ChangedFields(@[2])>>]
         [] how = "middle_changed" /\ n > 2 ->
              [src EXCEPT !.entries[2] = <<@[1], ChangedFields(@[2])>>]
         [] how = "last_changed" /\ n > 0 ->
              [src EXCEPT !.entries[n] = <<@[1], ChangedFields(@[2])>>]
         [] how = "id_changed" /\ n > 0 ->
              [src EXCEPT !.entries[n] = << <<@[1][1], @[1][2] + 1>>, @[2] >>]
         [] OTHER -> src

\* ------------------------------------------------------------------------
\* The writes of the six tests: [raised, st] for the stream st of the key
\* ------------------------------------------------------------------------
RECURSIVE XaddIds(_, _)
XaddIds(st, items) ==
    IF items = <<>> THEN [raised |-> FALSE, st |-> st]
    ELSE LET r == XaddId(st, items[1][1], items[1][2])
         IN IF r.raised THEN r ELSE XaddIds(r.st, Tail(items))

\* "for i in range(n): xadd(key, {"seq": str(i)})"
XaddAutos(st, n) ==
    LET base == st.last_id[1]
        added == [j \in 1 .. n |-> << <<base + j, 0>>, [seq |-> j - 1] >>]
    IN [exists |-> TRUE, entries |-> st.entries \o added, last_id |-> <<base + n, 0>>]

RECURSIVE XaddAutosTrim(_, _, _, _, _)
XaddAutosTrim(st, i, n, maxlen, lazy) ==
    IF i = n THEN st
    ELSE XaddAutosTrim(XtrimApprox(XaddAuto(st, [seq |-> i]), maxlen, lazy),
                       i + 1, n, maxlen, lazy)

basic_xadd_writes(st) ==
    XaddIds(st, << << <<1, 0>>, [field1 |-> "value1", field2 |-> "value2"] >>,
                   << <<2, 0>>, [field3 |-> "value3", field4 |-> "value4"] >>,
                   << <<3, 0>>, [field5 |-> "value5"] >> >>)

autoid_xadd_writes(st) ==
    [raised |-> FALSE,
     st |-> XaddAuto(XaddAuto(XaddAuto(st, [auto |-> "entry1"]), [auto |-> "entry2"]),
                     [auto |-> "entry3"])]

trim_maxlen_writes(st, lazy) ==
    [raised |-> FALSE, st |-> XtrimApprox(XaddAutos(st, 100), 50, lazy)]

trim_minid_adds(st) ==
    XaddIds(st, [i \in 1 .. 10 |-> << <<i, 0>>, [seq |-> i - 1] >>])

trim_to_zero_writes(st) ==
    [raised |-> FALSE, st |-> XtrimMaxlen(XaddAuto(st, [test |-> "data"]), 0)]

xadd_with_trim_writes(st, lazy) ==
    [raised |-> FALSE, st |-> XaddAutosTrim(st, 0, 20, 10, lazy)]

\* the list "tests" of run_all_tests: the key each test writes and compares
TestKeysInOrder ==
    <<"test:stream:basic", "test:stream:autoid", "test:stream:trim_maxlen",
      "test:stream:trim_minid", "test:stream:trim_maxlen", "test:stream:inline_trim">>

\* no call of compare_streams yet in this test. Of a call, cmp keeps the key,
\* the target as the first query saw it (tgtA), whether the handler's query
\* raised, and the result; the source it saw is s_source[key] and the target
\* its later queries saw is s_target[key].
NoCompare ==
    [ran |-> FALSE, key |-> "test:stream:basic", tgtA |-> NoStream, hraises |-> FALSE,
     result |-> FALSE, path |-> "none"]

StreamInit ==
    /\ s_pc = "cleanup"
    /\ s_source = [k \in StreamKeys |-> NoStream]
    /\ s_target = [k \in StreamKeys |-> NoStream]
    /\ s_test = 0
    /\ results = <<>>
    /\ cmp = NoCompare
    /\ s_anoms = 0
    /\ s_runs = 1
    /\ s_exit = -1
    /\ s_outcome = "running"

\* cleanup(): per key "source.delete(key); target.delete(key)" inside a
\* try whose except swallows everything. sdown/tdown: the store raises.
cleanup(src, tgt, sdown, tdown) ==
    [source |-> [k \in StreamKeys |->
                   IF k \in CleanupKeys /\ ~sdown THEN NoStream ELSE src[k]],
     target |-> [k \in StreamKeys |->
                   IF k \in CleanupKeys /\ ~sdown /\ ~tdown THEN NoStream ELSE tgt[k]]]

Cost(b) == IF b THEN 1 ELSE 0

\* run_all_tests: "self.cleanup()"
S_Cleanup ==
    /\ UNCHANGED rdbVars
    /\ s_pc = "cleanup"
    /\ \E sdown \in BOOLEAN, tdown \in BOOLEAN :
         /\ s_anoms + Cost(sdown) + Cost(tdown) <= MaxStreamAnomalies
         /\ s_anoms' = s_anoms + Cost(sdown) + Cost(tdown)
         /\ LET c == cleanup(s_source, s_target, sdown, tdown)
            IN /\ s_source' = c.source
               /\ s_target' = c.target
    /\ s_pc' = "tests"
    /\ UNCHANGED <<s_test, results, cmp, s_runs, s_exit, s_outcome>>

\* One test of run_all_tests: its writes w = [raised, st] on the key, the
\* 2 s sleep during which the engine replicates, then compare_streams.
\* lost: the source has lost the key by then; a, b: what the engine left on
\* the target when compare_streams first queries it and afterwards (a
\* steady deviation counts as one anomaly, a change between the queries as
\* one more); hraises: the handler's query raises.
\* compares = FALSE: the test returns True without comparing.
\* An exception of the test is caught by run_all_tests and recorded False.
\* Of a test that did not compare, cmp.path tells why ("raised", "skipped").
RunTest(idx, key, w, compares) ==
    /\ UNCHANGED rdbVars
    /\ s_pc = "tests"
    /\ s_test = idx - 1
    /\ s_test' = idx
    /\ \E lost \in BOOLEAN, a \in StreamVariants, b \in StreamVariants, hraises \in BOOLEAN :
         LET cost == Cost(lost) + Cost(b # "same") + Cost(a # b) + Cost(hraises)
             src == IF lost THEN NoStream ELSE w.st
             tgtA == StreamVariant(src, a)
             tgtB == StreamVariant(src, b)
             c == compare_streams(src, tgtA, tgtB, hraises)
         IN /\ s_anoms + cost <= MaxStreamAnomalies
            /\ s_anoms' = s_anoms + cost
            /\ s_source' = [s_source EXCEPT ![key] = src]
            /\ s_target' = [s_target EXCEPT ![key] = tgtB]
            /\ IF w.raised
               THEN /\ results' = Append(results, FALSE)
                    /\ cmp' = [NoCompare EXCEPT !.path = "raised"]
               ELSE IF ~compares
               THEN /\ results' = Append(results, TRUE)
                    /\ cmp' = [NoCompare EXCEPT !.path = "skipped"]
               ELSE /\ results' = Append(results, c.result)
                    /\ cmp' = [ran |-> TRUE, key |-> key, tgtA |-> tgtA,
                               hraises |-> hraises, result |-> c.result, path |-> c.path]
    /\ UNCHANGED <<s_pc, s_runs, s_exit, s_outcome>>

test_basic_xadd ==
    RunTest(1, "test:stream:basic", basic_xadd_writes(s_source["test:stream:basic"]), TRUE)

test_autoid_xadd ==
    RunTest(2, "test:stream:autoid", autoid_xadd_writes(s_source["test:stream:autoid"]), TRUE)

test_trim_maxlen ==
    \E lazy \in BOOLEAN :
        RunTest(3, "test:stream:trim_maxlen",
                trim_maxlen_writes(s_source["test:stream:trim_maxlen"], lazy), TRUE)

\* test_trim_minid: XTRIM MINID may be unsupported (ResponseError): the
\* test then returns True without comparing
test_trim_minid ==
    \E supported \in BOOLEAN :
        LET adds == trim_minid_adds(s_source["test:stream:trim_minid"])
            w == IF adds.raised \/ ~supported THEN adds
                 ELSE [raised |-> FALSE, st |-> XtrimMinid(adds.st, <<5, 0>>)]
        IN RunTest(4, "test:stream:trim_minid", w, supported)

test_trim_to_zero ==
    RunTest(5, "test:stream:trim_maxlen",
            trim_to_zero_writes(s_source["test:stream:trim_maxlen"]), TRUE)

test_xadd_with_trim ==
    \E lazy \in BOOLEAN :
        RunTest(6, "test:stream:inline_trim",
                xadd_with_trim_writes(s_source["test:stream:inline_trim"], lazy), TRUE)

\* the process ends: its variables are gone, the stores remain
StreamExit(code, how) ==
    /\ s_pc' = "done"
    /\ s_exit' = code
    /\ s_outcome' = how
    /\ s_test' = 0
    /\ results' = <<>>
    /\ cmp' = NoCompare

\* run_all_tests: "return passed == total"
SuiteResult(res) == Cardinality({i \in 1 .. Len(res) : res[i]}) = Len(res)

\* run_all_tests: the summary and its return; main: sys.exit(0 if success else 1)
S_Summary ==
    /\ UNCHANGED rdbVars
    /\ s_pc = "tests"
    /\ s_test = NUM_TESTS
    /\ IF SuiteResult(results)
       THEN StreamExit(S_EXIT_PASS, "pass")
       ELSE StreamExit(S_EXIT_FAILURES, "failures")
    /\ UNCHANGED <<s_source, s_target, s_anoms, s_runs>>

\* main: "except KeyboardInterrupt: sys.exit(2)"
S_Interrupt ==
    /\ UNCHANGED rdbVars
    /\ s_pc \in {"cleanup", "tests"}
    /\ StreamExit(S_EXIT_INTERRUPTED, "interrupted")
    /\ UNCHANGED <<s_source, s_target, s_anoms, s_runs>>

\* main: "except Exception: sys.exit(3)": an exception that escapes
\* run_all_tests (a print that raises, e.g. on a closed stdout)
S_Fatal ==
    /\ UNCHANGED rdbVars
    /\ s_pc \in {"cleanup", "tests"}
    /\ StreamExit(S_EXIT_FATAL, "fatal")
    /\ UNCHANGED <<s_source, s_target, s_anoms, s_runs>>

\* the operator runs the suite again, after a run that completed, against
\* the same stores
S_RunAgain ==
    /\ UNCHANGED rdbVars
    /\ s_pc = "done"
    /\ s_outcome \in {"pass", "failures"}
    /\ s_runs < MaxRuns
    /\ s_runs' = s_runs + 1
    /\ s_pc' = "cleanup"
    /\ s_exit' = -1
    /\ s_outcome' = "running"
    /\ UNCHANGED <<s_source, s_target, s_test, results, cmp, s_anoms>>

StreamNext ==
    \/ S_Cleanup
    \/ test_basic_xadd
    \/ test_autoid_xadd
    \/ test_trim_maxlen
    \/ test_trim_minid
    \/ test_trim_to_zero
    \/ test_xadd_with_trim
    \/ S_Summary
    \/ S_Interrupt
    \/ S_Fatal
    \/ S_RunAgain

\* ------------------------------------------------------------------------
\* Specifications: one per script
\* ------------------------------------------------------------------------
vars == <<rdbVars, streamVars>>

Init == (\E st \in {EmptyStore, StaleStore} : RdbInit(st)) /\ StreamInit

Next == RdbNext

Spec == Init /\ [][Next]_vars

NextStream == StreamNext

InitStream == RdbInit(EmptyStore) /\ StreamInit

SpecStream == InitStream /\ [][NextStream]_vars

NextVerify == VerifyNext

InitVerify == (\E n \in 0 .. MaxRecords : VerifyInit(n)) /\ StreamInit

SpecVerify == InitVerify /\ [][NextVerify]_vars


\* ========================================================================
\* Properties
\* ========================================================================
CmpSrc == s_source[cmp.key]

CmpTgtB == s_target[cmp.key]

\* C1: compare_streams returns True without comparing entries only when the
\* stream is absent on both stores; a stream present on one store and
\* absent on the other is never reported as a match.
C1_AbsentMatchOnlyIfBothAbsent ==
    cmp.ran =>
      /\ (cmp.path = "absent" /\ cmp.result)
            => (~CmpSrc.exists /\ ~cmp.tgtA.exists /\ ~CmpTgtB.exists)
      /\ (CmpSrc.exists /\ ~cmp.tgtA.exists /\ ~CmpTgtB.exists) => ~cmp.result
      /\ (~CmpSrc.exists /\ cmp.tgtA.exists /\ CmpTgtB.exists) => ~cmp.result

\* C2: the exit status of a finished run is zero if and only if the run
\* reached the verdict Pass.
C2_ExitZeroIffPass ==
    pc = "done" => (exit_code = 0 <=> verdict = "Pass")

\* C3: a run that ends with failures found, with a fatal setup error or by
\* an interruption exits with a non-zero status that neither of the other
\* two terminations uses.
C3_DistinctExitCodes ==
    pc = "done" =>
      /\ outcome = "failures"
            => exit_code # 0 /\ exit_code \notin {EXIT_SETUP_ERROR, EXIT_INTERRUPTED}
      /\ outcome = "setup_error"
            => exit_code # 0 /\ exit_code \notin {EXIT_FAILURES, EXIT_INTERRUPTED}
      /\ outcome = "interrupted"
            => exit_code # 0 /\ exit_code \notin {EXIT_FAILURES, EXIT_SETUP_ERROR}

FailsFor(k) == Cardinality({j \in 1 .. Len(fail_details) : fail_details[j].key = k})

\* C4: verify_test_data yields exactly one outcome per record, whatever
\* queries raise: the counters add up to the records handled, fail_details
\* has one entry per failure, a record whose query raises is one failure
\* of that key only, and the summary is reached only with all records handled.
C4_OneOutcomePerRecord ==
    /\ success_count + fail_count = vi
    /\ Len(fail_details) = fail_count
    /\ Len(printed) = vi
    /\ \A j \in 1 .. vi :
         /\ printed[j].key = test_keys[j].key
         /\ FailsFor(printed[j].key) = IF printed[j].text = "Verified" THEN 0 ELSE 1
         /\ fault[printed[j].key] = "t_exists" => printed[j].text = "Verification error"
         /\ printed[j].text = "Verification error" => fault[printed[j].key] # "none"
    /\ pc = "cleanup_prompt" =>
         /\ vi = Len(test_keys)
         /\ Len(test_keys) = TEST_KEYS_COUNT
         /\ success_count + fail_count = Len(test_keys)

\* a query raised for one record, and records after it were still compared
C4_Witness ==
    /\ pc = "cleanup_prompt"
    /\ \E j \in 1 .. vi : \E m \in (j + 1) .. vi :
         /\ printed[j].text = "Verification error"
         /\ printed[m].text = "Missing in target"
    /\ printed[vi].text = "Verified"

Dropped == {k \in Keys : source[k].type # "none" /\ target[k].type = "none"}

SameValue(k) == target[k].type = source[k].type /\ target[k].val = source[k].val

NoFaults == \A k \in Keys : fault[k] = "none"

OnlyDrops ==
    \A k \in Keys : source[k].type # "none" /\ (target[k].type = "none" \/ SameValue(k))

MissingKeys ==
    {fail_details[j].key : j \in {i \in 1 .. Len(fail_details) :
                                     fail_details[i].text = "Missing in target"}}

\* C5: when no query raises and the target holds every record unchanged
\* except a set D of records it lacks, verify_test_data reports "Missing in
\* target" for exactly the keys of D, fail_count is |D|, the loss rate is
\* |D| / total (5.0% for 1 of 20) and the verdict is Fail iff D is not empty.
C5_MissingExactlyDropped ==
    (pc = "cleanup_prompt" /\ NoFaults /\ OnlyDrops) =>
      /\ MissingKeys = Dropped
      /\ \A j \in 1 .. Len(fail_details) : fail_details[j].text = "Missing in target"
      /\ fail_count = Cardinality(Dropped)
      /\ Dropped # {} => data_loss_rate * TEST_KEYS_COUNT = Cardinality(Dropped) * 1000
      /\ Cardinality(Dropped) = 1 => data_loss_rate = 50
      /\ verdict = "Fail" <=> Dropped # {}

\* the 7th key alone is missing on the target: loss rate 5.0%, verdict Fail
C5_Witness ==
    /\ pc = "cleanup_prompt"
    /\ NoFaults
    /\ OnlyDrops
    /\ Dropped = {6}
    /\ MissingKeys = {6}
    /\ data_loss_rate = 50
    /\ verdict = "Fail"

LabelsDiffer(k) ==
    /\ target[k].type # "none"
    /\ source[k].type # target[k].type
    /\ fault[k] \notin {"t_exists", "s_type"}

NoValueQuery(queries) == \A q \in 1 .. Len(queries) : queries[q][2] \notin ValueCmds

\* C6: for a key that exists on the target and whose type label differs
\* between the stores, verify_test_data records exactly one failure, a
\* "Type mismatch", and sends no value query for the key to either store.
C6_TypeMismatchShortCircuits ==
    \A j \in 1 .. vi :
        LabelsDiffer(test_keys[j].key) =>
          /\ printed[j].text = "Type mismatch"
          /\ FailsFor(test_keys[j].key) = 1
          /\ \E d \in 1 .. Len(fail_details) :
               fail_details[d] = [key |-> test_keys[j].key, text |-> "Type mismatch"]
          /\ j = vi => NoValueQuery(lastQueries)

\* a key with differing labels whose value query would have raised
C6_Witness ==
    /\ vi > 0
    /\ pc = "verify"
    /\ LabelsDiffer(test_keys[vi].key)
    /\ fault[test_keys[vi].key] = "t_value"
    /\ printed[vi].text = "Type mismatch"
    /\ Len(lastQueries) = 3

\* the representation of a value for its declared kind, as the claim states it
RepEqual(key_type, s, t) ==
    CASE key_type = "string" -> s.val = t.val
      [] key_type = "hash" -> Range(s.val) = Range(t.val)
      [] key_type = "list" ->
           /\ Len(s.val) = Len(t.val)
           /\ \A i \in 1 .. Len(s.val) : s.val[i] = t.val[i]
      [] key_type = "set" ->
           \A m \in Range(s.val) \cup Range(t.val) : m \in Range(s.val) /\ m \in Range(t.val)
      [] OTHER -> Range(s.val) = Range(t.val)

Comparable(k) ==
    /\ fault[k] = "none"
    /\ target[k].type # "none"
    /\ source[k].type = target[k].type

\* C7: a record whose key exists on the target with the same type label on
\* both stores, and for which no query raises, is counted as a success iff
\* its representation is equal on both stores: scalar values equal, hash
\* mappings equal, lists equal index by index, sets equal whatever the
\* order, sorted-set (member, score) pairs equal.
C7_SuccessIffRepresentationEqual ==
    /\ success_count = Cardinality({j \in 1 .. vi : printed[j].text = "Verified"})
    /\ \A j \in 1 .. vi :
         Comparable(test_keys[j].key) =>
           (printed[j].text = "Verified"
              <=> RepEqual(test_keys[j].key_type, source[test_keys[j].key],
                           target[test_keys[j].key]))

\* a reordered list fails, a reordered set succeeds
C7_Witness ==
    /\ pc = "cleanup_prompt"
    /\ Comparable(2)
    /\ Comparable(3)
    /\ target[2].val = Reverse(source[2].val)
    /\ target[3].val = Reverse(source[3].val)
    /\ printed[3].text = "List mismatch"
    /\ printed[4].text = "Verified"

\* C8: for a stream present on both stores compare_streams returns a match
\* iff the reported lengths are equal, the full-range enumerations are the
\* same sequence of (id, fields) pairs and the first-entry and last-entry
\* summaries are equal; the tests that trim (exactly, approximately, by
\* minimum id) are judged by this same rule.
C8_StreamMatchRule ==
    (cmp.ran /\ CmpSrc.exists /\ cmp.tgtA.exists /\ CmpTgtB.exists) =>
      /\ cmp.path = "compared"
      /\ cmp.result <=>
           /\ Len(CmpSrc.entries) = Len(cmp.tgtA.entries)
           /\ CmpSrc.entries = CmpTgtB.entries
           /\ xinfo_stream(CmpSrc).first = xinfo_stream(cmp.tgtA).first
           /\ xinfo_stream(CmpSrc).last = xinfo_stream(cmp.tgtA).last

\* after an approximate trim that removed nothing on the source, a target
\* that is one entry shorter is a mismatch
C8_Witness ==
    /\ cmp.ran
    /\ cmp.key = "test:stream:trim_maxlen"
    /\ CmpSrc.exists /\ cmp.tgtA.exists /\ CmpTgtB.exists
    /\ Len(CmpSrc.entries) = 100
    /\ Len(CmpTgtB.entries) = 99
    /\ ~cmp.result

\* C9: a write that raises makes write_test_data return (False, []) however
\* many writes succeeded before it, and main then exits non-zero without
\* calling verify_test_data; the later phases are reached only with all
\* records written.
C9_GenerationFailsFast ==
    /\ (pc = "check_write" /\ ~success) => test_keys = <<>>
    /\ outcome = "generation_error" => (exit_code # 0 /\ ~verifyStarted)
    /\ pc \in {"settle", "verify", "cleanup_prompt"}
          => (success /\ Len(test_keys) = TEST_KEYS_COUNT)

\* a write raised after earlier writes had succeeded
C9_Witness ==
    /\ pc = "check_write"
    /\ ~success
    /\ Len(wtd_keys) = 7
    /\ source[6].type = "string"

\* C10: no test data is written before the operator's acknowledgment,
\* verify_test_data starts only after all writes and all 12 intervals of
\* the settle wait (remaining time 0), and no store command is sent during
\* the settle wait.
C10_PhasesOrdered ==
    /\ "write" \in accessPhases => acked
    /\ Len(wtd_keys) > 0 => acked
    /\ (pc = "verify" \/ (verifyStarted /\ pc # "done")) =>
         /\ Len(test_keys) = TEST_KEYS_COUNT
         /\ \A k \in Keys : source[k].type # "none"
         /\ settle_i = 12
         /\ remaining = 0
    /\ verifyStarted => ("write" \in accessPhases /\ acked)
    /\ "settle" \notin accessPhases

\* verification has started
C10_Witness ==
    /\ pc = "verify"
    /\ verifyStarted
    /\ vi = 1
    /\ settle_i = 12

\* the kinds of the specification's TestRecord, in the order it lists them
SpecKinds == <<"string", "hash", "list", "set", "zset", "stream">>

\* the kinds of the six slots of the generator's round-robin
SlotKinds == <<"string", "hash", "list", "set", "zset", "string">>

KindsOf(recs) == {recs[j].key_type : j \in 1 .. Len(recs)}

\* C11 as stated: record i has kind i mod K with K the number of supported
\* kinds, the kinds being Scalar, Hash, List, Set, SortedSet and Stream, so
\* that the 20 records cover all six kinds.
C11_SixKindsRoundRobin ==
    /\ \A j \in 1 .. Len(wtd_keys) :
         wtd_keys[j].key_type = SpecKinds[((j - 1) % Len(SpecKinds)) + 1]
    /\ Len(wtd_keys) >= Len(SpecKinds) => KindsOf(wtd_keys) = Range(SpecKinds)

\* C11 (amended): record i takes slot i mod 6 of a six-slot round-robin whose
\* slots are string, hash, list, set, sorted set and a second string; the
\* key written to the source has that type; from 5 records on the records
\* cover exactly the five kinds string, hash, list, set and sorted set, and
\* no stream record is ever generated.
C11_SlotRoundRobin ==
    /\ \A j \in 1 .. Len(wtd_keys) :
         /\ wtd_keys[j].key = j - 1
         /\ wtd_keys[j].key_type = SlotKinds[((j - 1) % NUM_DATA_TYPES) + 1]
         /\ type(source, j - 1) = wtd_keys[j].key_type
    /\ Len(wtd_keys) >= Cardinality(Range(SlotKinds))
          => KindsOf(wtd_keys) = Range(SlotKinds)
    /\ "stream" \notin KindsOf(wtd_keys) \cup KindsOf(test_keys)
    /\ pc = "settle" => test_keys = wtd_keys

\* all 20 records written: five kinds, the sixth record is a string again
C11_Witness ==
    /\ pc = "settle"
    /\ Len(test_keys) = TEST_KEYS_COUNT
    /\ KindsOf(test_keys) = {"string", "hash", "list", "set", "zset"}
    /\ test_keys[6].key_type = "string"
    /\ test_keys[7].key_type = "string"
    /\ Cardinality({j \in 1 .. Len(test_keys) : test_keys[j].key_type = "string"}) = 7

\* C12: whenever the configuration cannot be resolved or loaded, or the
\* connection to the source or to the target fails, the run is over with a
\* non-zero exit status, and no data-changing command has been sent: both
\* stores hold what they held at the start and the only store commands
\* sent are those of connect_redis.
C12_SetupErrorBeforeAnyWrite ==
    /\ setup_failed =>
         /\ pc = "done"
         /\ exit_code # 0
         /\ outcome \in {"setup_error", "unexpected_error"}
         /\ ~mutated
         /\ source = target
         /\ source \in {EmptyStore, StaleStore}
         /\ accessPhases \subseteq {"connect_source", "connect_target"}
         /\ ~acked
    /\ outcome = "setup_error" => setup_failed

\* the source connected, the target did not; keys a previous run left on
\* the stores are still there
C12_Witness ==
    /\ setup_failed
    /\ outcome = "setup_error"
    /\ accessPhases = {"connect_source", "connect_target"}
    /\ source = StaleStore
    /\ target = StaleStore

\* C13: the loss-rate division is evaluated only with a total above zero;
\* with an empty record list verification and the summary end with total 0,
\* success count 0, failure count 0, the reported loss 0% and the verdict
\* Pass, no division having been evaluated and no exception raised.
C13_NoDivisionByZeroTotal ==
    /\ divisor # -1 => divisor > 0
    /\ data_loss_rate # -1 => (Len(test_keys) > 0 /\ fail_count > 0)
    /\ (pc = "cleanup_prompt" /\ Len(test_keys) = 0) =>
         /\ vi = 0
         /\ success_count = 0
         /\ fail_count = 0
         /\ fail_details = <<>>
         /\ verdict = "Pass"
         /\ ReportedLossRate = 0
         /\ divisor = -1
    /\ (pc = "cleanup_prompt" /\ verdict = "Fail") =>
         /\ divisor = Len(test_keys)
         /\ 2 * (data_loss_rate * divisor - fail_count * 1000) <= divisor
         /\ 2 * (fail_count * 1000 - data_loss_rate * divisor) <= divisor
    /\ (pc = "done" /\ outcome = "unexpected_error") => verdict # "none"

\* the summary of an empty record list
C13_Witness ==
    /\ pc = "cleanup_prompt"
    /\ test_keys = <<>>
    /\ verdict = "Pass"
    /\ divisor = -1

\* the commands of the store client that read and change nothing
ReadCmds == {"exists", "type"} \cup ValueCmds

\* what every call of verify_test_data that has returned gave, and how
CallsAgree ==
    /\ (pc \in {"verify", "cleanup_prompt"} /\ vi = Len(test_keys)) =>
          \A c \in 1 .. Len(prev) : prev[c] = VerifyReturn
    /\ pc \in {"verify", "cleanup_prompt"} =>
          \A c \in 1 .. Len(prev) :
              /\ prev[c].success_count + prev[c].fail_count = Len(test_keys)
              /\ Len(prev[c].fail_details) = prev[c].fail_count
    /\ \A a \in 1 .. Len(fail_details) : \A b \in (a + 1) .. Len(fail_details) :
          fail_details[a].key < fail_details[b].key
    /\ \A q \in 1 .. Len(lastQueries) : lastQueries[q][2] \in ReadCmds

\* a step of main from the call of verify_test_data to its summary
VerifyStep == pc = "verify" /\ verifyStarted'

\* C14: verify_test_data sends only reading commands and no step of it
\* changes the source or the target, and a second call on the same record
\* list and the same stores returns the same success count, failure count
\* and failure list, the failures in the order the records were written.
C14_VerifyReadOnlyIdempotent ==
    [][/\ CallsAgree'
       /\ VerifyStep => (source' = source /\ target' = target /\ mutated' = mutated)]_vars

\* the second call has returned, with the same two failures in the same order
C14_Witness ==
    /\ pc = "verify"
    /\ Len(prev) = 1
    /\ vi = Len(test_keys)
    /\ Len(test_keys) = 4
    /\ prev[1] = VerifyReturn
    /\ success_count = 2
    /\ fail_count = 2
    /\ fail_details[1].key = 2
    /\ fail_details[2].key = 3
    /\ fail_details[1].text = "List mismatch"
    /\ fail_details[2].text = "Verification error"

\* C15: once cleanup() has run, no store having raised, none of the keys
\* the six tests write exists on the source or on the target, so that
\* every run of the suite starts from absent streams.
C15_CleanupCoversSuiteKeys ==
    (s_pc = "tests" /\ s_test = 0 /\ s_anoms = 0) =>
        \A k \in SuiteKeys : ~s_source[k].exists /\ ~s_target[k].exists

\* C16: a test of the suite is recorded as passed only if compare_streams
\* ran for its key after its writes and returned a match.
C16_PassOnlyAfterMatch ==
    (s_pc = "tests" /\ s_test > 0 /\ results[s_test]) =>
        (cmp.ran /\ cmp.key = TestKeysInOrder[s_test] /\ cmp.result)

\* the record of the test that ran last
LastTestRecorded ==
    (s_pc = "tests" /\ s_test > 0) =>
        LET r == results[s_test]
        IN /\ cmp.path = "raised" => ~r
           /\ cmp.path = "skipped" => (r /\ TestKeysInOrder[s_test] = "test:stream:trim_minid")
           /\ cmp.ran =>
                /\ cmp.key = TestKeysInOrder[s_test]
                /\ r = cmp.result
                /\ r = compare_streams(CmpSrc, cmp.tgtA, CmpTgtB, cmp.hraises).result
           /\ r => (cmp.ran \/ cmp.path = "skipped")
           /\ cmp.ran \/ cmp.path \in {"raised", "skipped"}

\* What run_all_tests does guarantee: exactly one result per test, in list
\* order, never changed once recorded; a pass without a comparison only for
\* test_trim_minid when its XTRIM MINID raised a ResponseError; a test that
\* raises otherwise is recorded as failed and the later tests still run;
\* the suite succeeds only after all six tests, every one recorded as passed.
ResultsFollowTests ==
    [][/\ LastTestRecorded'
       /\ s_pc' = "tests" => Len(results') = s_test'
       /\ (s_pc = "tests" /\ s_pc' = "tests") =>
            /\ s_test' = s_test + 1
            /\ SubSeq(results', 1, s_test) = results
       /\ (s_pc = "tests" /\ s_outcome' \in {"pass", "failures"}) => s_test = NUM_TESTS
       /\ (s_pc = "tests" /\ s_outcome' = "pass") =>
            \A i \in 1 .. NUM_TESTS : results[i]
       /\ (s_pc = "tests" /\ s_outcome' = "failures") =>
            \E i \in 1 .. NUM_TESTS : ~results[i]]_vars

\* XTRIM MINID raised on the source: test 4 is recorded as passed although
\* the target has no such stream, and the two later tests were compared
SkippedTestPassed ==
    /\ s_pc = "tests"
    /\ s_test = NUM_TESTS
    /\ results = <<TRUE, TRUE, TRUE, TRUE, TRUE, TRUE>>
    /\ Len(s_source["test:stream:trim_minid"].entries) = 10
    /\ ~s_target["test:stream:trim_minid"].exists
    /\ cmp.ran
    /\ cmp.key = "test:stream:inline_trim"

============================================================================
